---- MODULE Spec2Model ----
(***************************************************************************)
(* Chunked upload / download server (main_async.py, main_multithread.py).  *)
(*                                                                         *)
(* The two files are two builds of the same server; `variant` says which   *)
(* one is running.  Storage is the filesystem, modelled as a map from      *)
(* resolved paths to files.  Sizes are scaled: one model byte stands for   *)
(* 512 KiB, so CHUNK_SIZE = 2, and MAX_FILE_SIZE = MAX_PARTS * CHUNK_SIZE  *)
(* as in the source (100 MiB = 100 * 1 MiB).                               *)
(***************************************************************************)
EXTENDS Integers, Sequences, FiniteSets, TLC

VARIABLES
    variant,  \* which server file runs: "async" or "multithread"
    fs,       \* resolved path -> [exists, data]
    last,     \* the request being answered and its response
    names,    \* the names in the response of ListFiles / SearchFiles
    dl,       \* the download being streamed and the chunks yielded so far
    sess,     \* history: per path, the sequential upload its client is in
    slots,    \* the upload requests in progress, each at its suspension point
    own,      \* history: per path and byte, the slot of the request in
              \* progress that wrote it (0: a request that has returned)
    snap      \* history: the bytes of the file when its download was accepted

vars == <<variant, fs, last, names, dl, sess, slots, own, snap>>

-----------------------------------------------------------------------------
(* Program constants (scaled) and model bounds *)

CHUNK_SIZE == 2
MAX_PARTS == 3
MAX_FILE_SIZE == MAX_PARTS * CHUNK_SIZE

\* bytes of multipart framing and form fields that a POST body carries
\* besides the file payload (at least one)
FormOverhead == 1

\* bytes the model lets the whole store hold (the multithread build has
\* no limit of its own)
MaxDisk == 7

\* upload requests that can be in progress at the same time
MaxInflight == 2

UPLOAD_FOLDER == <<"u", "p", "l", "o", "a", "d", "s">>

Variants == {"async", "multithread"}

-----------------------------------------------------------------------------
(* Inputs *)

\* client-supplied file names, as sequences of characters
NameA == <<"a">>
NameAb == <<"A", "b">>
NameUp == <<".", ".", "/", "a">>
NameB == <<"b">>
AllNames == {NameA, NameAb, NameUp, NameB}

\* names that upload requests carry
FileNames == {NameA, NameUp}

\* the route /download/{file_name} matches one path segment: no "/"
HasSeparator(s) == \E i \in 1..Len(s) : s[i] = "/"
RouteNames == {n \in AllNames : ~HasSeparator(n)}

Payloads == {<<>>, <<1>>, <<0, 1>>, <<0, 1, 1>>}

PartNumbers == 0..MAX_PARTS
TotalParts == 0..(MAX_PARTS + 1)

\* the Content-Length header of a request: absent (chunked transfer
\* encoding), not a number, or the length of the body
HeaderKinds == {"none", "bad", "num"}

Queries == {<<>>, <<"a">>, <<"A">>, <<"b">>, <<"a", "B">>, <<"b", "a">>}

-----------------------------------------------------------------------------
(* Sequences of bytes and characters *)

Take(s, n) == SubSeq(s, 1, IF n < Len(s) THEN n ELSE Len(s))
Drop(s, n) == SubSeq(s, n + 1, Len(s))

RECURSIVE Flatten(_)
Flatten(ss) == IF ss = <<>> THEN <<>> ELSE Head(ss) \o Flatten(Tail(ss))

\* str.lower() on the characters the names use
LowerChar(c) == CASE c = "A" -> "a" [] c = "B" -> "b" [] OTHER -> c
Lower(s) == [i \in 1..Len(s) |-> LowerChar(s[i])]

\* Python's `q in s` on strings
Contains(q, s) ==
    \E i \in 0..(Len(s) - Len(q)) : SubSeq(s, i + 1, i + Len(q)) = q

-----------------------------------------------------------------------------
(* Paths *)

\* os.path.join(a, b) on POSIX
PathJoin(a, b) ==
    IF b # <<>> /\ b[1] = "/" THEN b ELSE a \o <<"/">> \o b

RECURSIVE SplitPath(_, _, _)
SplitPath(s, cur, acc) ==
    IF s = <<>> THEN Append(acc, cur)
    ELSE IF Head(s) = "/" THEN SplitPath(Tail(s), <<>>, Append(acc, cur))
    ELSE SplitPath(Tail(s), Append(cur, Head(s)), acc)

RECURSIVE Normalize(_, _)
Normalize(comps, acc) ==
    IF comps = <<>> THEN acc
    ELSE LET c == Head(comps) IN
         IF c = <<>> \/ c = <<".">> THEN Normalize(Tail(comps), acc)
         ELSE IF c = <<".", ".">>
              THEN Normalize(Tail(comps),
                             IF acc = <<>> THEN acc
                             ELSE SubSeq(acc, 1, Len(acc) - 1))
              ELSE Normalize(Tail(comps), Append(acc, c))

\* the file the operating system opens for a relative path: its components
\* from the working directory, with "." and ".." resolved
Resolve(path) == Normalize(SplitPath(path, <<>>, <<>>), <<>>)

FileLocation(name) == Resolve(PathJoin(UPLOAD_FOLDER, name))

Paths == {FileLocation(n) : n \in AllNames}

InUploadFolder(p) == Len(p) = 2 /\ p[1] = UPLOAD_FOLDER

-----------------------------------------------------------------------------
(* The filesystem *)

NoFile == [exists |-> FALSE, data |-> <<>>]

\* os.path.exists, os.path.getsize
Exists(f, p) == f[p].exists
GetSize(f, p) == Len(f[p].data)

\* os.listdir(UPLOAD_FOLDER)
ListDir(f) == {p[2] : p \in {q \in Paths : InUploadFolder(q) /\ f[q].exists}}

\* the write lands at the start of the file instead of its end
AppendFile_Prepend(f, p, content) ==
    [f EXCEPT ![p] = [exists |-> TRUE, data |-> content \o f[p].data]]

\* open(file_location, "ab") followed by write(content): creates the file
\* when it is absent and adds content at its end
AppendFile(f, p, content) ==
    [f EXCEPT ![p] = [exists |-> TRUE, data |-> f[p].data \o content]]

\* open(file_path, "rb"), seek(start), read(size)
ReadRange(f, p, start, size) ==
    SubSeq(f[p].data, start + 1,
           IF start + size < Len(f[p].data) THEN start + size
           ELSE Len(f[p].data))

-----------------------------------------------------------------------------
(* Requests and responses *)

UploadRequests ==
    [name : FileNames, payload : Payloads, part_number : PartNumbers,
     total_parts : TotalParts, cl : HeaderKinds]

\* the value of a numeric Content-Length header: the whole POST body
ContentLength(req) == Len(req.payload) + FormOverhead

Response(status, detail, f) == [status |-> status, detail |-> detail, fs |-> f]

MsgTooManyParts == "Total parts cannot exceed MAX_PARTS."
MsgTooLarge == "Each part must not exceed 1 MB."
MsgShortPart == "Each part except the last must be exactly 1 MB."
MsgQuota == "Total file size exceeds the allowed limit of 100 MB."
MsgComplete == "Upload complete"
MsgPart == "Part uploaded"
MsgLenTooLarge == "Each part must not exceed 1 MB based on Content-Length."
MsgLenInvalid == "Invalid Content-Length header."
MsgNotFound == "File not found"
MsgNoMatch == "No matching files found."
MsgQueryRequired == "File name parameter is required"
MsgNoFiles == "No files found."
MsgOk == "OK"

\* the message of an accepted upload_part
Progress(req) ==
    IF req.part_number = req.total_parts THEN MsgComplete ELSE MsgPart

-----------------------------------------------------------------------------
(* main_async.py *)

\* open(file_location, "wb"): the file is truncated before the write
save_file_part_async_Overwrite(f, file_location, content) ==
    [f EXCEPT ![file_location] = [exists |-> TRUE, data |-> content]]

\* a short write: the last byte of content is not written
save_file_part_async_Partial(f, file_location, content) ==
    AppendFile(f, file_location,
               SubSeq(content, 1, IF content = <<>> THEN 0 ELSE Len(content) - 1))

\* save_file_part_async, and the same two lines inside upload_part
save_file_part_async(f, file_location, content) ==
    AppendFile(f, file_location, content)

ExceedsMaxFileSize_Inclusive(current_file_size, content) ==
    current_file_size + Len(content) >= MAX_FILE_SIZE

\* the quota test of upload_part
ExceedsMaxFileSize(current_file_size, content) ==
    current_file_size + Len(content) > MAX_FILE_SIZE

\* upload_part with the write moved above the quota test
upload_part_async_WriteFirst(f, req) ==
    LET content == Take(req.payload, CHUNK_SIZE + 1)
        file_location == FileLocation(req.name)
        current_file_size ==
            IF Exists(f, file_location) THEN GetSize(f, file_location) ELSE 0
        written == AppendFile(f, file_location, content)
    IN  IF req.total_parts > MAX_PARTS
            THEN Response(400, MsgTooManyParts, f)
        ELSE IF Len(content) > CHUNK_SIZE
            THEN Response(400, MsgTooLarge, f)
        ELSE IF Len(content) < CHUNK_SIZE /\ req.part_number < req.total_parts
            THEN Response(400, MsgShortPart, f)
        ELSE IF ExceedsMaxFileSize(current_file_size, content)
            THEN Response(413, MsgQuota, written)
        ELSE Response(200, Progress(req), written)

upload_part_async(f, req) ==
    LET content == Take(req.payload, CHUNK_SIZE + 1)
        file_location == FileLocation(req.name)
        current_file_size ==
            IF Exists(f, file_location) THEN GetSize(f, file_location) ELSE 0
    IN  IF req.total_parts > MAX_PARTS
            THEN Response(400, MsgTooManyParts, f)
        ELSE IF Len(content) > CHUNK_SIZE
            THEN Response(400, MsgTooLarge, f)
        ELSE IF Len(content) < CHUNK_SIZE /\ req.part_number < req.total_parts
            THEN Response(400, MsgShortPart, f)
        ELSE IF ExceedsMaxFileSize(current_file_size, content)
            THEN Response(413, MsgQuota, f)
        ELSE Response(200, Progress(req),
                      save_file_part_async(f, file_location, content))

search_file_async(f, query) ==
    LET matching_files ==
            {file \in ListDir(f) : Contains(Lower(query), Lower(file))}
    IN  IF query = <<>>
            THEN [status |-> 400, detail |-> MsgQueryRequired, files |-> {}]
        ELSE IF matching_files = {}
            THEN [status |-> 404, detail |-> MsgNoMatch, files |-> {}]
        ELSE [status |-> 200, detail |-> MsgOk, files |-> matching_files]

-----------------------------------------------------------------------------
(* main_multithread.py *)

save_file_part(f, file_location, content) ==
    AppendFile(f, file_location, content)

\* the loop of upload_part: read CHUNK_SIZE bytes, stop on an empty read,
\* save what was read
RECURSIVE SaveChunks(_, _, _)
SaveChunks(f, file_location, rest) ==
    LET content == Take(rest, CHUNK_SIZE)
    IN  IF content = <<>> THEN f
        ELSE SaveChunks(save_file_part(f, file_location, content),
                        file_location, Drop(rest, CHUNK_SIZE))

upload_part_multithread(f, req) ==
    Response(200, Progress(req),
             SaveChunks(f, FileLocation(req.name), req.payload))

search_file_multithread(f, query) ==
    LET matching_files ==
            {file \in ListDir(f) : Contains(Lower(query), Lower(file))}
    IN  IF matching_files = {}
            THEN [status |-> 404, detail |-> MsgNoMatch, files |-> {}]
        ELSE [status |-> 200, detail |-> MsgOk, files |-> matching_files]

-----------------------------------------------------------------------------
(* Both files *)

\* the middleware: what it answers itself, or "pass" for call_next
validate_content_length(method, req) ==
    IF method = "POST" /\ req.cl # "none"
    THEN IF req.cl = "bad" THEN [pass |-> FALSE, status |-> 400,
                                 detail |-> MsgLenInvalid]
         ELSE IF ContentLength(req) > CHUNK_SIZE
              THEN [pass |-> FALSE, status |-> 400, detail |-> MsgLenTooLarge]
              ELSE [pass |-> TRUE, status |-> 200, detail |-> MsgOk]
    ELSE [pass |-> TRUE, status |-> 200, detail |-> MsgOk]

upload_part(v, f, req) ==
    IF v = "async" THEN upload_part_async(f, req)
    ELSE upload_part_multithread(f, req)

\* POST /upload_part/: the middleware, then the handler
HandleUpload(v, f, req) ==
    LET mw == validate_content_length("POST", req)
    IN  IF mw.pass THEN upload_part(v, f, req)
        ELSE Response(mw.status, mw.detail, f)

search_file(v, f, query) ==
    IF v = "async" THEN search_file_async(f, query)
    ELSE search_file_multithread(f, query)

list_files(f) ==
    IF ListDir(f) = {}
    THEN [status |-> 200, detail |-> MsgNoFiles, files |-> {}]
    ELSE [status |-> 200, detail |-> MsgOk, files |-> ListDir(f)]

\* range(0, file_size, CHUNK_SIZE)
ChunkStarts(file_size) ==
    {s \in 0..file_size : s < file_size /\ s % CHUNK_SIZE = 0}

\* read(size) without the seek(start)
read_file_part_NoSeek(f, file_path, start, size) == ReadRange(f, file_path, 0, size)

\* read_file_part_async / read_file_part
read_file_part(f, file_path, start, size) == ReadRange(f, file_path, start, size)

\* ResumePoint: floor(size / CHUNK_SIZE) of the stored file, not-found when
\* there is none
resume_point(f, name) ==
    LET file_location == FileLocation(name)
    IN  IF ~Exists(f, file_location)
        THEN [status |-> 404, detail |-> MsgNotFound, chunk_index |-> 0]
        ELSE [status |-> 200, detail |-> MsgOk,
              chunk_index |-> GetSize(f, file_location) \div CHUNK_SIZE]

-----------------------------------------------------------------------------
(* History of the client of one destination: the parts 1..k of an n-part    *)
(* upload, sent one after another to a file that did not exist, each within *)
(* the rules of the part validator, and nothing else                        *)

WellFormedPart(req) ==
    /\ req.total_parts \in 1..MAX_PARTS
    /\ req.part_number \in 1..req.total_parts
    /\ Len(req.payload) <= CHUNK_SIZE
    /\ req.part_number < req.total_parts => Len(req.payload) = CHUNK_SIZE

NoSession == [active |-> FALSE, n |-> 0, k |-> 0, sent |-> <<>>,
              complete |-> FALSE]

SessionAfter(s, existed, req, r) ==
    IF r.status = 200 /\ WellFormedPart(req)
       /\ ~existed /\ req.part_number = 1
    THEN [active |-> TRUE, n |-> req.total_parts, k |-> 1,
          sent |-> req.payload, complete |-> r.detail = MsgComplete]
    ELSE IF r.status = 200 /\ WellFormedPart(req)
            /\ s.active /\ s.k < s.n
            /\ req.total_parts = s.n /\ req.part_number = s.k + 1
    THEN [active |-> TRUE, n |-> s.n, k |-> s.k + 1,
          sent |-> s.sent \o req.payload, complete |-> r.detail = MsgComplete]
    ELSE NoSession

-----------------------------------------------------------------------------
(* State *)

RECURSIVE SumSizes(_, _)
SumSizes(f, ps) ==
    IF ps = {} THEN 0
    ELSE LET p == CHOOSE q \in ps : TRUE
         IN  Len(f[p].data) + SumSizes(f, ps \ {p})

StoreBytes(f) == SumSizes(f, Paths)

Idle == [state |-> "idle", path |-> <<>>, file_size |-> 0, start |-> 0,
         chunks |-> <<>>]

Last(op, name, status, detail) ==
    [op |-> op, name |-> name, len |-> 0, part_number |-> 0,
     total_parts |-> 0, cl |-> "none", status |-> status, detail |-> detail,
     chunk_index |-> 0]

NoLast == Last("none", <<>>, 200, MsgOk)

\* Path(UPLOAD_FOLDER).mkdir(exist_ok=True): the folder is created empty, or
\* is the folder of an earlier run, here with one file "Ab" in it
EmptyStore == [p \in Paths |-> NoFile]
InitialStores ==
    {EmptyStore,
     [EmptyStore EXCEPT ![FileLocation(NameAb)] =
                            [exists |-> TRUE, data |-> <<1>>]]}

Slots == 1..MaxInflight

FreeSlot == [pc |-> "free", path |-> <<>>, content |-> <<>>]

Zeros(n) == [i \in 1..n |-> 0]

\* every byte of f written by requests that have returned
Settled(f) == [p \in Paths |-> Zeros(Len(f[p].data))]

Init ==
    /\ variant \in Variants
    /\ fs \in InitialStores
    /\ last = NoLast
    /\ names = {}
    /\ dl = Idle
    /\ sess = [p \in Paths |-> NoSession]
    /\ slots = [s \in Slots |-> FreeSlot]
    /\ own = Settled(fs)
    /\ snap = <<>>

\* requests are handled one after another: the next one starts when the
\* response to the last one has left
Serial == last.op = "none"

\* POST /upload_part/
UploadPart(req) ==
    LET r == HandleUpload(variant, fs, req)
        p == FileLocation(req.name)
    IN  /\ Serial
        /\ StoreBytes(r.fs) <= MaxDisk
        /\ fs' = r.fs
        /\ last' = [Last("upload", req.name, r.status, r.detail) EXCEPT
                      !.len = Len(req.payload),
                      !.part_number = req.part_number,
                      !.total_parts = req.total_parts,
                      !.cl = req.cl]
        /\ sess' = [sess EXCEPT ![p] = SessionAfter(sess[p], Exists(fs, p), req, r)]
        /\ names' = {}
        /\ dl' = Idle
        /\ own' = Settled(r.fs)
        /\ UNCHANGED <<variant, slots, snap>>

\* download_file probing the file with open(file_path, "ab"), which creates
\* it when it is absent
DownloadFile_Create(file_name) ==
    LET file_path == FileLocation(file_name)
    IN  /\ Serial
        /\ IF ~Exists(fs, file_path)
           THEN /\ last' = Last("download", file_name, 404, MsgNotFound)
                /\ dl' = Idle
                /\ fs' = AppendFile(fs, file_path, <<>>)
           ELSE /\ last' = Last("download", file_name, 200, MsgOk)
                /\ dl' = [state |-> "streaming", path |-> file_path,
                          file_size |-> GetSize(fs, file_path), start |-> 0,
                          chunks |-> <<>>]
                /\ fs' = fs
        /\ snap' = fs[file_path].data
        /\ names' = {}
        /\ UNCHANGED <<variant, sess, slots, own>>

\* GET /download/{file_name}: the handler, up to the StreamingResponse
DownloadFile(file_name) ==
    LET file_path == FileLocation(file_name)
    IN  /\ Serial
        /\ IF ~Exists(fs, file_path)
           THEN /\ last' = Last("download", file_name, 404, MsgNotFound)
                /\ dl' = Idle
           ELSE /\ last' = Last("download", file_name, 200, MsgOk)
                /\ dl' = [state |-> "streaming", path |-> file_path,
                          file_size |-> GetSize(fs, file_path), start |-> 0,
                          chunks |-> <<>>]
        /\ snap' = fs[file_path].data
        /\ names' = {}
        /\ UNCHANGED <<variant, fs, sess, slots, own>>

\* one turn of iter_file: the next chunk, or the end of the range
\* iter_file with the range taken over the size the file has now
IterFile_LiveSize ==
    /\ dl.state = "streaming"
    /\ IF dl.start \in ChunkStarts(GetSize(fs, dl.path))
       THEN dl' = [dl EXCEPT
                     !.chunks = Append(@, read_file_part(fs, dl.path, dl.start,
                                                         CHUNK_SIZE)),
                     !.start = @ + CHUNK_SIZE]
       ELSE dl' = [dl EXCEPT !.state = "done"]
    /\ UNCHANGED <<variant, fs, last, names, sess, slots, own, snap>>

IterFile ==
    /\ dl.state = "streaming"
    /\ IF dl.start \in ChunkStarts(dl.file_size)
       THEN dl' = [dl EXCEPT
                     !.chunks = Append(@, read_file_part(fs, dl.path, dl.start,
                                                         CHUNK_SIZE)),
                     !.start = @ + CHUNK_SIZE]
       ELSE dl' = [dl EXCEPT !.state = "done"]
    /\ UNCHANGED <<variant, fs, last, names, sess, slots, own, snap>>

\* the client drops the connection in mid-stream
Disconnect ==
    /\ dl.state = "streaming"
    /\ dl' = [dl EXCEPT !.state = "dropped"]
    /\ UNCHANGED <<variant, fs, last, names, sess, slots, own, snap>>

\* GET /files/
ListFiles ==
    LET r == list_files(fs)
    IN  /\ Serial
        /\ last' = Last("list", <<>>, r.status, r.detail)
        /\ names' = r.files
        /\ dl' = Idle
        /\ UNCHANGED <<variant, fs, sess, slots, own, snap>>

\* GET /search/?file_name=
SearchFiles(query) ==
    LET r == search_file(variant, fs, query)
    IN  /\ Serial
        /\ last' = Last("search", query, r.status, r.detail)
        /\ names' = r.files
        /\ dl' = Idle
        /\ UNCHANGED <<variant, fs, sess, slots, own, snap>>

\* ResumePoint
Resume(name) ==
    LET r == resume_point(fs, name)
    IN  /\ Serial
        /\ last' = [Last("resume", name, r.status, r.detail) EXCEPT
                      !.chunk_index = r.chunk_index]
        /\ names' = {}
        /\ dl' = Idle
        /\ UNCHANGED <<variant, fs, sess, slots, own, snap>>

\* the response leaves the server, which keeps nothing of the request
Deliver ==
    /\ last.op # "none"
    /\ dl.state # "streaming"
    /\ last' = NoLast
    /\ names' = {}
    /\ dl' = Idle
    /\ snap' = <<>>
    /\ UNCHANGED <<variant, fs, sess, slots, own>>

Next ==
    \/ \E req \in UploadRequests : UploadPart(req)
    \/ \E file_name \in RouteNames : DownloadFile(file_name)
    \/ IterFile
    \/ Disconnect
    \/ ListFiles
    \/ \E query \in Queries : SearchFiles(query)
    \/ \E name \in RouteNames : Resume(name)
    \/ Deliver

Spec == Init /\ [][Next]_vars

-----------------------------------------------------------------------------
(* Requests in progress at the same time.  Each upload request is a task    *)
(* that runs from one await to the next; between two of them any other task *)
(* may run.  The download is the one of DownloadFile and IterFile above.    *)

\* uploads of one client to one destination, sent without waiting for the
\* responses
ConcurrentRequests ==
    {req \in UploadRequests :
        /\ req.name = NameA
        /\ req.cl = "none"
        /\ req.part_number = 1
        /\ req.total_parts \in {1, 2}}

RECURSIVE SumPending(_, _)
SumPending(sl, ss) ==
    IF ss = {} THEN 0
    ELSE LET s == CHOOSE t \in ss : TRUE
         IN  Len(sl[s].content) + SumPending(sl, ss \ {s})

\* the bytes that the requests in progress have still to write
PendingBytes == SumPending(slots, Slots)

\* main_async.upload_part from its entry to the quota test (lines 73-105):
\* a rejected request is answered at once, an accepted one goes on to
\* `async with aiofiles.open(...)`
BeginUploadAsync(s, req) ==
    /\ variant = "async"
    /\ slots[s].pc = "free"
    /\ StoreBytes(fs) + PendingBytes + Len(req.payload) <= MaxDisk
    /\ slots' = IF upload_part_async(fs, req).status = 200
                THEN [slots EXCEPT ![s] =
                        [pc |-> "open", path |-> FileLocation(req.name),
                         content |-> Take(req.payload, CHUNK_SIZE + 1)]]
                ELSE slots
    /\ UNCHANGED <<variant, fs, last, names, dl, sess, own, snap>>

\* aiofiles.open(file_location, "ab") (line 108): the file exists from here
OpenAsync(s) ==
    /\ slots[s].pc = "open"
    /\ fs' = AppendFile(fs, slots[s].path, <<>>)
    /\ slots' = [slots EXCEPT ![s].pc = "write"]
    /\ UNCHANGED <<variant, last, names, dl, sess, own, snap>>

\* upload_file.write(content) (line 109)
WriteAsync(s) ==
    /\ slots[s].pc = "write"
    /\ fs' = save_file_part_async(fs, slots[s].path, slots[s].content)
    /\ own' = [own EXCEPT ![slots[s].path] =
                 @ \o [i \in 1..Len(slots[s].content) |-> s]]
    /\ slots' = [slots EXCEPT ![s].pc = "return", ![s].content = <<>>]
    /\ UNCHANGED <<variant, last, names, dl, sess, snap>>

\* main_multithread.upload_part up to its loop (line 73)
BeginUploadMultithread(s, req) ==
    /\ variant = "multithread"
    /\ slots[s].pc = "free"
    /\ StoreBytes(fs) + PendingBytes + Len(req.payload) <= MaxDisk
    /\ slots' = [slots EXCEPT ![s] =
                   [pc |-> "loop", path |-> FileLocation(req.name),
                    content |-> req.payload]]
    /\ UNCHANGED <<variant, fs, last, names, dl, sess, own, snap>>

\* one turn of the loop of main_multithread.upload_part (lines 78-87): the
\* next CHUNK_SIZE bytes are saved by a pool thread, or the stream is at its
\* end
LoopMultithread(s) ==
    LET content == Take(slots[s].content, CHUNK_SIZE)
    IN  /\ slots[s].pc = "loop"
        /\ IF content = <<>>
           THEN /\ slots' = [slots EXCEPT ![s].pc = "return"]
                /\ UNCHANGED <<fs, own>>
           ELSE /\ fs' = save_file_part(fs, slots[s].path, content)
                /\ own' = [own EXCEPT ![slots[s].path] =
                             @ \o [i \in 1..Len(content) |-> s]]
                /\ slots' = [slots EXCEPT
                               ![s].content = Drop(@, CHUNK_SIZE)]
        /\ UNCHANGED <<variant, last, names, dl, sess, snap>>

\* the handler returns its message (lines 112-118): the request is over
ReturnUpload(s) ==
    /\ slots[s].pc = "return"
    /\ slots' = [slots EXCEPT ![s] = FreeSlot]
    /\ own' = [p \in Paths |->
                 [i \in 1..Len(own[p]) |-> IF own[p][i] = s THEN 0 ELSE own[p][i]]]
    /\ UNCHANGED <<variant, fs, last, names, dl, sess, snap>>

NextConcurrent ==
    \/ \E s \in Slots, req \in ConcurrentRequests : BeginUploadAsync(s, req)
    \/ \E s \in Slots : OpenAsync(s)
    \/ \E s \in Slots : WriteAsync(s)
    \/ \E s \in Slots, req \in ConcurrentRequests : BeginUploadMultithread(s, req)
    \/ \E s \in Slots : LoopMultithread(s)
    \/ \E s \in Slots : ReturnUpload(s)

\* a download of the destination while one client uploads to it
NextStreaming ==
    \/ \E req \in ConcurrentRequests : BeginUploadAsync(1, req)
    \/ OpenAsync(1)
    \/ WriteAsync(1)
    \/ \E req \in ConcurrentRequests : BeginUploadMultithread(1, req)
    \/ LoopMultithread(1)
    \/ ReturnUpload(1)
    \/ DownloadFile(NameA)
    \/ IterFile
    \/ Deliver

SpecStreaming == Init /\ [][NextStreaming]_vars

SpecConcurrent == Init /\ [][NextConcurrent]_vars

-----------------------------------------------------------------------------
(* Properties *)

IsUpload(l) == l.op = "upload"

\* the size the handler reads for the destination of the request l
SizeBefore(f, l) ==
    IF Exists(f, FileLocation(l.name)) THEN GetSize(f, FileLocation(l.name)) ELSE 0

\* C1: an UploadPart request that is rejected, whatever the reason, leaves
\* every stored file as it was and creates none
C1_RejectedUploadLeavesStorage ==
    [][(IsUpload(last') /\ last'.status # 200) => fs' = fs]_vars

\* a part was refused for quota while its destination exists
C1_Witness ==
    /\ IsUpload(last) /\ last.status = 413
    /\ Exists(fs, FileLocation(last.name))

\* C2: while a client has sent exactly the parts 1..k of an n-part upload to
\* a destination that did not exist, the file holds the payloads in part
\* order (so its size is the sum of their lengths), and the latest response
\* was "Upload complete" exactly when k = n
C2_SequentialUpload ==
    \A p \in Paths :
        sess[p].active =>
            /\ fs[p].data = sess[p].sent
            /\ GetSize(fs, p) = Len(sess[p].sent)
            /\ sess[p].complete <=> sess[p].k = sess[p].n
            /\ variant = "async" => Exists(fs, p)

\* an upload of MAX_PARTS parts has completed on the async server
C2_Witness ==
    \E p \in Paths :
        /\ variant = "async"
        /\ sess[p].active /\ sess[p].n = MAX_PARTS /\ sess[p].k = MAX_PARTS
        /\ sess[p].complete
        /\ Len(sess[p].sent) > CHUNK_SIZE

\* C3: a part longer than CHUNK_SIZE is rejected and nothing is appended,
\* whatever part_number and total_parts are
C3_OversizePartRejected ==
    [][(IsUpload(last') /\ last'.len > CHUNK_SIZE)
          => (last'.status # 200 /\ fs' = fs)]_vars

\* C4: a part that is not the last and is shorter than CHUNK_SIZE is
\* rejected and nothing is appended
C4_ShortNonFinalPartRejected ==
    [][(IsUpload(last') /\ last'.part_number < last'.total_parts
                        /\ last'.len < CHUNK_SIZE)
          => (last'.status # 200 /\ fs' = fs)]_vars

\* the request l passes the middleware and the rules other than the quota
PassesOtherRules(l) ==
    /\ l.cl = "none" \/ (l.cl = "num" /\ l.len + FormOverhead <= CHUNK_SIZE)
    /\ l.total_parts <= MAX_PARTS
    /\ l.len <= CHUNK_SIZE
    /\ ~(l.len < CHUNK_SIZE /\ l.part_number < l.total_parts)

\* C5: on the async server, with requests handled one after another, a part
\* that passes the other rules is accepted, and grows its file by its
\* length, exactly when the file's size plus its length is at most
\* MAX_FILE_SIZE; otherwise it gets the quota error and storage is unchanged
C5_QuotaThreshold ==
    [][(variant = "async" /\ IsUpload(last') /\ PassesOtherRules(last'))
          => IF SizeBefore(fs, last') + last'.len <= MAX_FILE_SIZE
             THEN /\ last'.status = 200
                  /\ GetSize(fs', FileLocation(last'.name))
                         = SizeBefore(fs, last') + last'.len
             ELSE /\ last'.status = 413
                  /\ last'.detail = MsgQuota
                  /\ fs' = fs]_vars

\* a file was filled to exactly MAX_FILE_SIZE and the next part was refused
C5_Witness ==
    /\ variant = "async" /\ IsUpload(last)
    /\ last.status = 413 /\ last.len > 0
    /\ GetSize(fs, FileLocation(last.name)) = MAX_FILE_SIZE

\* C6: a part with part_number < 1 or total_parts < 1 is rejected as an
\* invalid argument and nothing is written
C6_PartNumbersAtLeastOne ==
    [][(IsUpload(last') /\ (last'.part_number < 1 \/ last'.total_parts < 1))
          => (last'.status = 400 /\ fs' = fs)]_vars

\* what a download has streamed so far, against the file it reads
ChunksRight(d, data) ==
    /\ \A i \in 1..Len(d.chunks) :
          /\ Len(d.chunks[i]) <= CHUNK_SIZE
          /\ i < Len(d.chunks) => Len(d.chunks[i]) = CHUNK_SIZE
    /\ d.state = "streaming" =>
          Flatten(d.chunks) = Take(data, d.start)
    /\ d.state = "done" =>
          /\ Flatten(d.chunks) = data
          /\ Len(Flatten(d.chunks)) = d.file_size
          /\ Len(d.chunks) = (d.file_size + CHUNK_SIZE - 1) \div CHUNK_SIZE

\* C7: a download of an existing file that no request modifies meanwhile
\* yields chunks of at most CHUNK_SIZE bytes, all but the last of exactly
\* CHUNK_SIZE, that sum to the file's size and concatenate to its bytes (no
\* chunk for an empty file); after a sequential upload they concatenate to
\* the uploaded payloads
C7_DownloadChunks ==
    dl.state \in {"streaming", "done"} =>
        /\ Exists(fs, dl.path)
        /\ dl.file_size = GetSize(fs, dl.path)
        /\ ChunksRight(dl, fs[dl.path].data)
        /\ (dl.state = "done" /\ sess[dl.path].active) =>
               Flatten(dl.chunks) = sess[dl.path].sent

\* a sequentially uploaded file of two full parts and a short one was
\* downloaded to the end
C7_Witness ==
    /\ dl.state = "done"
    /\ Len(dl.chunks) = 3
    /\ Len(dl.chunks[3]) \in 1..(CHUNK_SIZE - 1)
    /\ sess[dl.path].active /\ sess[dl.path].complete

\* a name with a path separator or a parent-directory component
UnsafeName(n) ==
    \/ HasSeparator(n)
    \/ \E i \in 1..Len(SplitPath(n, <<>>, <<>>)) :
          SplitPath(n, <<>>, <<>>)[i] = <<".", ".">>

\* C8: UploadPart and DownloadFile answer a name with a path separator or a
\* parent-directory component with an invalid-argument error, and no file
\* exists outside the storage root
C8_NoPathTraversal ==
    /\ (last.op \in {"upload", "download"} /\ UnsafeName(last.name))
          => last.status = 400
    /\ \A p \in Paths : Exists(fs, p) => InUploadFolder(p)

\* the answer of ResumePoint recorded in l, against the store f
ResumeRight(f, l, ss) ==
    LET p == FileLocation(l.name)
    IN  /\ ~Exists(f, p) => l.status = 404
        /\ Exists(f, p) =>
              /\ l.status = 200
              /\ \E r \in 0..(CHUNK_SIZE - 1) :
                    GetSize(f, p) = l.chunk_index * CHUNK_SIZE + r
        /\ (ss[p].active /\ ss[p].k < ss[p].n) => l.chunk_index = ss[p].k

\* C9: ResumePoint changes no stored file, reports not-found for a
\* destination that does not exist, returns k for a file of size
\* k * CHUNK_SIZE + r with 0 <= r < CHUNK_SIZE, and so returns k after the
\* first k parts, none the last, of a sequential upload
C9_ResumePoint ==
    [][last'.op = "resume" => (fs' = fs /\ ResumeRight(fs', last', sess'))]_vars

\* the resume point was asked after the first two parts of a three-part
\* upload
C9_Witness ==
    /\ last.op = "resume" /\ last.status = 200 /\ last.chunk_index = 2
    /\ sess[FileLocation(last.name)].active
    /\ sess[FileLocation(last.name)].k = 2
    /\ sess[FileLocation(last.name)].n = 3

\* the stored names that contain q, letter case ignored
Matching(f, q) == {n \in ListDir(f) : Contains(Lower(q), Lower(n))}

\* C10: SearchFiles answers an empty query with an invalid-argument error
\* and no list, a query that no stored name contains with not-found, and any
\* other query with exactly the stored names that contain it, letter case
\* ignored
C10_Search ==
    last.op = "search" =>
        IF last.name = <<>> THEN last.status = 400 /\ names = {}
        ELSE IF Matching(fs, last.name) = {} THEN last.status = 404
        ELSE last.status = 200 /\ names = Matching(fs, last.name)

\* C11: DownloadFile (also one that answers not-found, and every chunk of
\* its stream up to its end or to the client's disconnect), ListFiles and
\* SearchFiles leave every stored file, and the set of stored files, as
\* they were
C11_ReadOnlyOperations ==
    [][last'.op \in {"download", "list", "search"} => fs' = fs]_vars

\* a download was dropped after its first chunk, with more to come
C11_Witness ==
    /\ dl.state = "dropped"
    /\ Len(dl.chunks) >= 1
    /\ dl.start < dl.file_size

\* C12: on the async server a part that is not the last, of exactly
\* CHUNK_SIZE bytes, with total_parts <= MAX_PARTS and room for it under
\* MAX_FILE_SIZE, sent with a Content-Length (the payload and the form
\* fields), is accepted by the middleware and upload_part and appended
C12_FullPartAccepted ==
    [][(/\ variant = "async" /\ IsUpload(last')
        /\ last'.cl = "num"
        /\ last'.part_number >= 1
        /\ last'.part_number < last'.total_parts
        /\ last'.total_parts <= MAX_PARTS
        /\ last'.len = CHUNK_SIZE
        /\ SizeBefore(fs, last') + CHUNK_SIZE <= MAX_FILE_SIZE)
          => /\ last'.status = 200
             /\ GetSize(fs', FileLocation(last'.name))
                    = SizeBefore(fs, last') + CHUNK_SIZE]_vars

\* C13: whatever the order in which the steps of concurrent uploads to one
\* destination run, no file of the async server is ever larger than
\* MAX_FILE_SIZE.
C13_QuotaUnderConcurrency ==
    variant = "async" => \A p \in Paths : GetSize(fs, p) <= MAX_FILE_SIZE

\* C14: whatever the order in which the steps of concurrent uploads to one
\* destination run, the bytes a request has written are one contiguous range
\* of the file: no byte of another request lies between two of them.
C14_ContiguousPayload ==
    \A p \in Paths, s \in Slots :
        \A i, j \in 1..Len(own[p]) :
            (i < j /\ own[p][i] = s /\ own[p][j] = s) =>
                \A k \in i..j : own[p][k] = s

IsPrefix(s, t) == Len(s) <= Len(t) /\ SubSeq(t, 1, Len(s)) = s

\* C15: files only grow at their end: in every step each file that exists
\* still exists afterwards with its old content as a prefix of the new, and
\* an accepted UploadPart, whatever its part_number, adds exactly its
\* payload at the end of its destination and touches no other file
C15_AppendOnly ==
    [][/\ \A p \in Paths :
             Exists(fs, p) => (Exists(fs', p) /\ IsPrefix(fs[p].data, fs'[p].data))
       /\ (IsUpload(last') /\ last'.status = 200) =>
             /\ \E x \in Payloads :
                   /\ Len(x) = last'.len
                   /\ fs'[FileLocation(last'.name)].data
                          = fs[FileLocation(last'.name)].data \o x
             /\ \A q \in Paths \ {FileLocation(last'.name)} : fs'[q] = fs[q]]_vars

\* part 1 of 2 was accepted again for a file that already held two parts
C15_Witness ==
    /\ IsUpload(last) /\ last.status = 200
    /\ last.part_number = 1 /\ last.total_parts = 2
    /\ GetSize(fs, FileLocation(last.name)) >= 3 * CHUNK_SIZE

CeilDiv(n, d) == (n + d - 1) \div d

\* C16: a download accepted when the file had S0 bytes, with uploads appending
\* to the file while it streams, yields chunks of at most CHUNK_SIZE bytes,
\* never more than ceil(S0 / CHUNK_SIZE) of them, and can always take its next
\* step; when it ends it has yielded exactly ceil(S0 / CHUNK_SIZE) chunks and
\* the first S0 bytes streamed are the S0 bytes the file had at request time.
C16_DownloadDuringAppend ==
    dl.state \in {"streaming", "done"} =>
        /\ dl.file_size = Len(snap)
        /\ \A i \in 1..Len(dl.chunks) : Len(dl.chunks[i]) <= CHUNK_SIZE
        /\ Len(dl.chunks) <= CeilDiv(dl.file_size, CHUNK_SIZE)
        /\ dl.state = "streaming" => ENABLED IterFile
        /\ dl.state = "done" =>
              /\ Len(dl.chunks) = CeilDiv(dl.file_size, CHUNK_SIZE)
              /\ Take(Flatten(dl.chunks), dl.file_size) = snap

\* a download of 3 bytes has ended with 4: the last chunk holds a byte that
\* was appended while the download was streaming
C16_Witness ==
    /\ dl.state = "done"
    /\ dl.file_size = 2 * CHUNK_SIZE - 1
    /\ Len(dl.chunks) = 2
    /\ Len(Flatten(dl.chunks)) = 2 * CHUNK_SIZE
    /\ GetSize(fs, dl.path) > dl.file_size

\* C17: main_async.upload_part and main_multithread.upload_part answer every
\* request, in every state of the store, with the same status, the same
\* message and the same files left behind
C17_SameUploadLogic ==
    \A req \in UploadRequests :
        /\ upload_part_async(fs, req).status
               = upload_part_multithread(fs, req).status
        /\ upload_part_async(fs, req).detail
               = upload_part_multithread(fs, req).detail
        /\ upload_part_async(fs, req).fs = upload_part_multithread(fs, req).fs

====
